---- MODULE Spec2Model ----
(***************************************************************************)
(* Model of the product-space analytics engine (src/src/rca.rs and         *)
(* src/src/lib.rs): the RCA and fair-share matrix transforms and the       *)
(* year-selecting queries of ProductSpace.                                 *)
(*                                                                         *)
(* f64 values are modelled as exact extended rationals <<n, d>>:           *)
(*   d > 0 and gcd(|n|, d) = 1   a finite value n/d                        *)
(*   <<1, 0>>, <<-1, 0>>         +Inf, -Inf                                *)
(*   <<0, 0>>                    NaN                                       *)
(* Rounding of f64 arithmetic is not modelled; division by zero, NaN and   *)
(* the infinities follow IEEE-754 (with the sign of zero taken as +).      *)
(* Equality "=" on values is structural, so NaN = NaN in formulas.         *)
(*                                                                         *)
(* A DMatrix<f64> is a record [nrows, ncols, data] whose data is the       *)
(* column-major storage vector, as in nalgebra.  Rows and columns are      *)
(* indexed from 0, Option<T> is <<>> (None) or <<x>> (Some(x)).            *)
(***************************************************************************)
EXTENDS Integers, Sequences, FiniteSets, TLC

(***************************************************************************)
(* Bounds of the model                                                     *)
(***************************************************************************)
\* activity cells of the transform inputs range over 0..MaxCell
MaxCell == 2
\* the years that may be keys of the per-year maps are 1..NumYears
NumYears == 2
\* the year lists passed to the queries have at most MaxLen entries
MaxLen == 3

(***************************************************************************)
(* f64 arithmetic                                                          *)
(***************************************************************************)
Abs(n) == IF n < 0 THEN -n ELSE n

Sign(n) == IF n > 0 THEN 1 ELSE IF n < 0 THEN -1 ELSE 0

RECURSIVE GCD(_, _)
GCD(a, b) == IF b = 0 THEN a ELSE GCD(b, a % b)

\* the value n/d in normal form
Norm(n, d) ==
    IF d = 0 THEN <<Sign(n), 0>>
    ELSE LET g == GCD(Abs(n), Abs(d))
         IN  <<(Sign(d) * n) \div g, Abs(d) \div g>>

Rat(n, d) == Norm(n, d)
Int2F(n) == <<n, 1>>
Zero == <<0, 1>>
One == <<1, 1>>
NaN == <<0, 0>>
PosInf == <<1, 0>>
NegInf == <<-1, 0>>

IsNaN(x) == x = NaN
IsFinite(x) == x[2] # 0

\* x + y
Add(x, y) ==
    IF x[2] = 0 /\ y[2] = 0
    THEN (IF x = y THEN x ELSE NaN)
    ELSE Norm(x[1] * y[2] + y[1] * x[2], x[2] * y[2])

\* x * y
Mul(x, y) == Norm(x[1] * y[1], x[2] * y[2])

\* 1 / y
Inv(y) ==
    IF y[1] = 0 THEN (IF y[2] = 0 THEN NaN ELSE PosInf)
    ELSE IF y[1] > 0 THEN <<y[2], y[1]>>
    ELSE <<-y[2], -y[1]>>

\* x / y
Div(x, y) == Mul(x, Inv(y))

\* x >= y (false when either side is NaN)
Ge(x, y) ==
    IF IsNaN(x) \/ IsNaN(y) THEN FALSE
    ELSE IF x[2] = 0 /\ y[2] = 0 THEN x[1] >= y[1]
    ELSE x[1] * y[2] >= y[1] * x[2]

\* x > y (false when either side is NaN)
Gt(x, y) == Ge(x, y) /\ x # y

(***************************************************************************)
(* Option<T>                                                               *)
(***************************************************************************)
None == <<>>
Some(x) == <<x>>
is_some(o) == o # <<>>
is_none(o) == o = <<>>
unwrap(o) == o[1]
unwrap_or(o, dflt) == IF o = <<>> THEN dflt ELSE o[1]

(***************************************************************************)
(* DMatrix<f64>                                                            *)
(***************************************************************************)
from_vec(r, c, v) == [nrows |-> r, ncols |-> c, data |-> v]

from_element(r, c, e) ==
    [nrows |-> r, ncols |-> c, data |-> [k \in 1..(r * c) |-> e]]

\* the cell in row i, column j (both from 0)
Cell(m, i, j) == m.data[j * m.nrows + i + 1]

RowOf(m, k) == (k - 1) % m.nrows
ColOf(m, k) == (k - 1) \div m.nrows

Rows(m) == 0..(m.nrows - 1)
Cols(m) == 0..(m.ncols - 1)

\* the matrix given by its rows (a sequence of sequences)
FromRows(rs) ==
    LET r == Len(rs)
        c == Len(rs[1])
    IN  [nrows |-> r, ncols |-> c,
         data |-> [k \in 1..(r * c) |-> rs[((k - 1) % r) + 1][((k - 1) \div r) + 1]]]

RECURSIVE SumSeq(_)
SumSeq(s) ==
    IF Len(s) = 0 THEN Zero
    ELSE Add(SumSeq(SubSeq(s, 1, Len(s) - 1)), s[Len(s)])

\* nalgebra column_sum: the sum of all columns, one entry per row
column_sum(a) ==
    [i \in Rows(a) |-> SumSeq([jj \in 1..a.ncols |-> Cell(a, i, jj - 1)])]

\* nalgebra row_sum: the sum of all rows, one entry per column
row_sum(a) ==
    [j \in Cols(a) |-> SumSeq([ii \in 1..a.nrows |-> Cell(a, ii - 1, j)])]

\* nalgebra sum: the sum of all cells
sum(a) == SumSeq(a.data)

\* element-wise product
component_mul(z, m) ==
    [z EXCEPT !.data = [k \in DOMAIN z.data |-> Mul(z.data[k], m.data[k])]]

\* element-wise sum (z += m)
add_assign(z, m) ==
    [z EXCEPT !.data = [k \in DOMAIN z.data |-> Add(z.data[k], m.data[k])]]

(***************************************************************************)
(* src/src/rca.rs                                                          *)
(***************************************************************************)
\* rca with the column shares left undivided by the grand total
rca_no_grand_total(m) ==
    LET a == m
        b == column_sum(a)
        c == row_sum(a)
        a_b == [a EXCEPT !.data =
                   [k \in DOMAIN a.data |-> Div(a.data[k], b[RowOf(a, k)])]]
    IN  [a_b EXCEPT !.data =
            [k \in DOMAIN a_b.data |-> Div(a_b.data[k], c[ColOf(a_b, k)])]]

\* rca returns a new matrix (a/b)/(c/d); the argument is borrowed immutably
rca(m) ==
    LET a == m
        b == column_sum(a)
        c == row_sum(a)
        d == sum(a)
        c_d == [j \in DOMAIN c |-> Div(c[j], d)]
        a_b == [a EXCEPT !.data =
                   [k \in DOMAIN a.data |-> Div(a.data[k], b[RowOf(a, k)])]]
        a_b_c_d == [a_b EXCEPT !.data =
                   [k \in DOMAIN a_b.data |-> Div(a_b.data[k], c_d[ColOf(a_b, k)])]]
    IN  a_b_c_d

\* apply_rca: the value of *m after the call; b, c and d are taken from the
\* matrix before the two sweeps overwrite it
apply_rca(m) ==
    LET a == m
        b == column_sum(a)
        c == row_sum(a)
        d == sum(a)
        c_d == [j \in DOMAIN c |-> Div(c[j], d)]
        a_b == [a EXCEPT !.data =
                   [k \in DOMAIN a.data |-> Div(a.data[k], b[RowOf(a, k)])]]
        a_b_c_d == [a_b EXCEPT !.data =
                   [k \in DOMAIN a_b.data |-> Div(a_b.data[k], c_d[ColOf(a_b, k)])]]
    IN  a_b_c_d

\* fair_share with a strict comparison
fair_share_strict(m, cutoff) ==
    LET c == unwrap_or(cutoff, One)
    IN  [m EXCEPT !.data =
            [k \in DOMAIN m.data |-> IF Gt(m.data[k], c) THEN One ELSE Zero]]

\* fair_share returns the binarized copy
fair_share(m, cutoff) ==
    LET c == unwrap_or(cutoff, One)
    IN  [m EXCEPT !.data =
            [k \in DOMAIN m.data |-> IF Ge(m.data[k], c) THEN One ELSE Zero]]

\* apply_fair_share: the value of *m after the call
apply_fair_share(m, cutoff) ==
    LET c == unwrap_or(cutoff, One)
    IN  [m EXCEPT !.data =
            [k \in DOMAIN m.data |-> IF Ge(m.data[k], c) THEN One ELSE Zero]]

\* apply_fair_share_into with a strict comparison
apply_fair_share_into_strict(m1, into_m, cutoff) ==
    LET c == unwrap_or(cutoff, One)
        b1 == [m1 EXCEPT !.data =
                 [k \in DOMAIN m1.data |-> IF Gt(m1.data[k], c) THEN One ELSE Zero]]
    IN  [m1 |-> b1, into_m |-> component_mul(into_m, b1)]

\* apply_fair_share_into: the values of *m1 and *into_m after the call
apply_fair_share_into(m1, into_m, cutoff) ==
    LET c == unwrap_or(cutoff, One)
        b1 == [m1 EXCEPT !.data =
                 [k \in DOMAIN m1.data |-> IF Ge(m1.data[k], c) THEN One ELSE Zero]]
    IN  [m1 |-> b1, into_m |-> component_mul(into_m, b1)]

(***************************************************************************)
(* Collaborating modules of the crate (proximity, density, smooth)         *)
(***************************************************************************)
MinF(x, y) == IF IsNaN(x) \/ IsNaN(y) THEN NaN ELSE IF Ge(x, y) THEN y ELSE x

\* proximity[p,q] = min(P(q present | p present), P(p present | q present))
proximity(m) ==
    LET n == m.ncols
        tot == row_sum(m)
        cooc(p, q) == SumSeq([ii \in 1..m.nrows |->
                                 Mul(Cell(m, ii - 1, p), Cell(m, ii - 1, q))])
        prox(p, q) == MinF(Div(cooc(p, q), tot[p]), Div(cooc(p, q), tot[q]))
    IN  [nrows |-> n, ncols |-> n,
         data |-> [k \in 1..(n * n) |-> prox((k - 1) % n, (k - 1) \div n)]]

\* density[i,j] = (sum_k proximity[j,k] * rca[i,k]) / (sum_k proximity[j,k])
density(rca_m, proximity_m) ==
    LET r == rca_m.nrows
        num(i, j) == SumSeq([kk \in 1..rca_m.ncols |->
                       Mul(Cell(proximity_m, j, kk - 1), Cell(rca_m, i, kk - 1))])
        den(i, j) == SumSeq([kk \in 1..rca_m.ncols |-> Cell(proximity_m, j, kk - 1)])
        dens(i, j) == Div(num(i, j), den(i, j))
    IN  [nrows |-> r, ncols |-> rca_m.ncols,
         data |-> [k \in 1..(r * rca_m.ncols) |-> dens((k - 1) % r, (k - 1) \div r)]]

RECURSIVE SumMatrices(_, _)
SumMatrices(z, ms) ==
    IF ms = <<>> THEN z ELSE SumMatrices(add_assign(z, Head(ms)), Tail(ms))

\* smooth::avg: the sum of the matrices, from all 0.0, divided by len
avg(ms, n, len) ==
    LET total == SumMatrices(from_element(n, n, Zero), ms)
    IN  [total EXCEPT !.data =
            [k \in DOMAIN total.data |-> Div(total.data[k], Int2F(len))]]

(***************************************************************************)
(* src/src/lib.rs: ProductSpace                                            *)
(***************************************************************************)
\* years.iter().filter_map(|y| map.get(y)): the matrices of the requested
\* years that are keys of the map, in request order
RECURSIVE filter_map_get(_, _)
filter_map_get(map, years) ==
    IF years = <<>> THEN <<>>
    ELSE IF Head(years) \in DOMAIN map
         THEN <<map[Head(years)]>> \o filter_map_get(map, Tail(years))
         ELSE filter_map_get(map, Tail(years))

\* the fold closure of rca_matrix: one present year folded into z
rca_fold_step(z, rca_y, cutoff) ==
    LET rca_matrix_y == rca_y
    IN  IF is_some(cutoff)
        THEN apply_fair_share_into(rca_matrix_y, z, cutoff).into_m
        ELSE add_assign(z, rca_matrix_y)

RECURSIVE fold_rca(_, _, _)
fold_rca(z, ms, cutoff) ==
    IF ms = <<>> THEN z
    ELSE fold_rca(rca_fold_step(z, Head(ms), cutoff), Tail(ms), cutoff)

\* the accumulator left by the fold of rca_matrix, before the division
rca_fold(self, years, cutoff) ==
    LET init_matrix == from_element(Cardinality(DOMAIN self.country_idx),
                                    Cardinality(DOMAIN self.product_idx), One)
    IN  fold_rca(init_matrix, filter_map_get(self.rcas_by_year, years), cutoff)

\* the closure binarizing the stored matrix itself, without the clone
rca_borrowed_after_no_clone(rca_y, cutoff) ==
    IF is_some(cutoff) THEN apply_fair_share(rca_y, cutoff) ELSE rca_y

\* let mut rca_matrix = rca.clone(): the stored matrix a closure of rca_matrix
\* borrowed, after the closure ran; the in-place binarization falls on the
\* clone, which is dropped or returned
rca_borrowed_after(rca_y, cutoff) ==
    LET rca_matrix_y == rca_y
        binarized == IF is_some(cutoff) THEN apply_fair_share(rca_matrix_y, cutoff)
                                        ELSE rca_matrix_y
    IN  rca_y

\* self.rcas_by_year after rca_matrix(years, cutoff) has returned
rcas_by_year_after_rca_matrix(self, years, cutoff) ==
    LET visited == IF Len(years) > 1 THEN {years[k] : k \in 1..Len(years)}
                   ELSE IF Len(years) = 1 THEN {years[1]}
                   ELSE {}
    IN  [y \in DOMAIN self.rcas_by_year |->
            IF y \in visited
            THEN rca_borrowed_after(self.rcas_by_year[y], cutoff)
            ELSE self.rcas_by_year[y]]

\* rca_matrix dividing by the number of years found
rca_matrix_div_found(self, years, cutoff) ==
    IF Len(years) > 1
    THEN LET res == rca_fold(self, years, cutoff)
             found == Len(filter_map_get(self.rcas_by_year, years))
         IN  IF is_none(cutoff)
             THEN Some([res EXCEPT !.data =
                     [k \in DOMAIN res.data |-> Div(res.data[k], Int2F(found))]])
             ELSE Some(res)
    ELSE IF Len(years) = 1
    THEN IF years[1] \in DOMAIN self.rcas_by_year
         THEN LET rca_m == self.rcas_by_year[years[1]]
              IN  Some(IF is_some(cutoff) THEN apply_fair_share(rca_m, cutoff)
                                          ELSE rca_m)
         ELSE None
    ELSE None

\* rca_matrix answering None when no requested year is found
rca_matrix_none_if_all_missing(self, years, cutoff) ==
    IF Len(years) > 1 /\ filter_map_get(self.rcas_by_year, years) = <<>>
    THEN None
    ELSE IF Len(years) > 1
    THEN LET res == rca_fold(self, years, cutoff)
         IN  IF is_none(cutoff)
             THEN Some([res EXCEPT !.data =
                     [k \in DOMAIN res.data |-> Div(res.data[k], Int2F(Len(years)))]])
             ELSE Some(res)
    ELSE IF Len(years) = 1
    THEN IF years[1] \in DOMAIN self.rcas_by_year
         THEN LET rca_m == self.rcas_by_year[years[1]]
              IN  Some(IF is_some(cutoff) THEN apply_fair_share(rca_m, cutoff)
                                          ELSE rca_m)
         ELSE None
    ELSE None

\* rca_matrix answering a single year with a cutoff from the matrices
\* binarized at construction
rca_matrix_single_precomputed(self, years, cutoff) ==
    IF Len(years) > 1
    THEN LET res == rca_fold(self, years, cutoff)
         IN  IF is_none(cutoff)
             THEN Some([res EXCEPT !.data =
                     [k \in DOMAIN res.data |-> Div(res.data[k], Int2F(Len(years)))]])
             ELSE Some(res)
    ELSE IF Len(years) = 1
    THEN IF years[1] \in DOMAIN self.rcas_by_year
         THEN Some(IF is_some(cutoff) THEN self.rcas_cutoff_by_year[years[1]]
                                      ELSE self.rcas_by_year[years[1]])
         ELSE None
    ELSE None

rca_matrix(self, years, cutoff) ==
    IF Len(years) > 1
    THEN LET res == rca_fold(self, years, cutoff)
         IN  IF is_none(cutoff)
             THEN Some([res EXCEPT !.data =
                     [k \in DOMAIN res.data |-> Div(res.data[k], Int2F(Len(years)))]])
             ELSE Some(res)
    ELSE IF Len(years) = 1
    THEN IF years[1] \in DOMAIN self.rcas_by_year
         THEN LET rca_m == self.rcas_by_year[years[1]]
              IN  Some(IF is_some(cutoff) THEN apply_fair_share(rca_m, cutoff)
                                          ELSE rca_m)
         ELSE None
    ELSE None

RECURSIVE fold_component_mul(_, _)
fold_component_mul(z, ms) ==
    IF ms = <<>> THEN z
    ELSE fold_component_mul(component_mul(z, Head(ms)), Tail(ms))

rca_cutoff_matrix(self, years) ==
    IF Len(years) > 1
    THEN LET init_matrix == from_element(Cardinality(DOMAIN self.country_idx),
                                         Cardinality(DOMAIN self.product_idx), One)
         IN  Some(fold_component_mul(init_matrix,
                                     filter_map_get(self.rcas_by_year, years)))
    ELSE IF Len(years) = 1
    THEN IF years[1] \in DOMAIN self.rcas_cutoff_by_year
         THEN Some(self.rcas_cutoff_by_year[years[1]])
         ELSE None
    ELSE None

proximity_matrix(self, years) ==
    IF Len(years) > 1
    THEN Some(avg(filter_map_get(self.proximities_by_year, years),
                  Cardinality(DOMAIN self.product_idx), Len(years)))
    ELSE IF Len(years) = 1
    THEN IF years[1] \in DOMAIN self.proximities_by_year
         THEN Some(self.proximities_by_year[years[1]])
         ELSE None
    ELSE None

density_matrix(self, years, rca_cutoff) ==
    LET rca_o == rca_matrix(self, years, rca_cutoff)
        proximity_o == proximity_matrix(self, years)
    IN  IF is_some(rca_o) /\ is_some(proximity_o)
        THEN Some(density(unwrap(rca_o), unwrap(proximity_o)))
        ELSE None

\* prox.apply(|x| if x.is_nan() { 0.0 } else { x })
zero_nan(m) ==
    [m EXCEPT !.data = [k \in DOMAIN m.data |->
                           IF IsNaN(m.data[k]) THEN Zero ELSE m.data[k]]]

\* new keeping a proximity matrix only for the years with some presence
new_skip_empty_proximity(country_idx_in, product_idx_in, mcps_in, rca_cutoff) ==
    LET rcas == [y \in DOMAIN mcps_in |-> rca(mcps_in[y])]
        rcas_cutoff == [y \in DOMAIN mcps_in |->
                           apply_fair_share(rca(mcps_in[y]), rca_cutoff)]
        kept == {y \in DOMAIN rcas_cutoff :
                    \E k \in DOMAIN rcas_cutoff[y].data : rcas_cutoff[y].data[k] = One}
        proximities == [y \in kept |-> zero_nan(proximity(rcas_cutoff[y]))]
    IN  [country_idx |-> country_idx_in,
         product_idx |-> product_idx_in,
         mcps |-> mcps_in,
         rcas_by_year |-> rcas,
         rcas_cutoff_by_year |-> rcas_cutoff,
         proximities_by_year |-> proximities]

\* ProductSpace::new: the fields of the constructed value
new(country_idx_in, product_idx_in, mcps_in, rca_cutoff) ==
    LET rcas == [y \in DOMAIN mcps_in |-> rca(mcps_in[y])]
        rcas_cutoff == [y \in DOMAIN mcps_in |->
                           apply_fair_share(rca(mcps_in[y]), rca_cutoff)]
        proximities == [y \in DOMAIN rcas_cutoff |->
                           zero_nan(proximity(rcas_cutoff[y]))]
    IN  [country_idx |-> country_idx_in,
         product_idx |-> product_idx_in,
         mcps |-> mcps_in,
         rcas_by_year |-> rcas,
         rcas_cutoff_by_year |-> rcas_cutoff,
         proximities_by_year |-> proximities]

\* the Rca / Density result view over a matrix
RcaView(self, m_opt) ==
    IF is_some(m_opt)
    THEN Some([country_idx |-> self.country_idx,
               product_idx |-> self.product_idx,
               m |-> unwrap(m_opt)])
    ELSE None

\* the Proximity result view over a matrix
ProximityView(self, m_opt) ==
    IF is_some(m_opt)
    THEN Some([product_idx |-> self.product_idx, m |-> unwrap(m_opt)])
    ELSE None

(***************************************************************************)
(* State                                                                   *)
(***************************************************************************)
VARIABLES
    constructed,          \* ProductSpace::new has returned
    country_idx,          \* ProductSpace.country_idx
    product_idx,          \* ProductSpace.product_idx
    mcps,                 \* ProductSpace.mcps
    rcas_by_year,         \* ProductSpace.rcas_by_year
    rcas_cutoff_by_year,  \* ProductSpace.rcas_cutoff_by_year
    proximities_by_year,  \* ProductSpace.proximities_by_year
    ctor_cutoff,          \* the rca_cutoff argument given to new
    q_op,                 \* the last query called
    q_years,              \* its years argument
    q_cutoff,             \* its cutoff argument
    q_result,             \* the Option it returned
    q_again,              \* the last query has been issued a second time
    fn_src,               \* the matrix a caller of the transforms started with
    fn_m,                 \* the caller's matrix, mutated by the in-place calls
    fn_cutoff,            \* the cutoff argument of the fair-share calls
    fn_ret,               \* the matrix returned by the copying call
    fn_ret2,              \* the matrix returned by fair_share of fn_ret
    fn_log                \* the transforms called so far

ps_vars == <<constructed, country_idx, product_idx, mcps, rcas_by_year,
             rcas_cutoff_by_year, proximities_by_year, ctor_cutoff>>
\* the fields no query method writes to
ps_rest == <<constructed, country_idx, product_idx, mcps,
             rcas_cutoff_by_year, proximities_by_year, ctor_cutoff>>
q_vars == <<q_op, q_years, q_cutoff, q_result, q_again>>
fn_vars == <<fn_src, fn_m, fn_cutoff, fn_ret, fn_ret2, fn_log>>
vars == <<ps_vars, q_vars, fn_vars>>

\* &self
Self ==
    [country_idx |-> country_idx,
     product_idx |-> product_idx,
     mcps |-> mcps,
     rcas_by_year |-> rcas_by_year,
     rcas_cutoff_by_year |-> rcas_cutoff_by_year,
     proximities_by_year |-> proximities_by_year]

(***************************************************************************)
(* Inputs                                                                  *)
(***************************************************************************)
EmptyMap == [y \in {} |-> 0]
EmptyMatrix == from_vec(0, 0, <<>>)

YearSet == 1..NumYears

\* the index maps given to new: 2 countries, 2 products
CountryIdxIn == [n \in {"a", "b"} |-> IF n = "a" THEN 0 ELSE 1]
ProductIdxIn == [n \in {"01", "02"} |-> IF n = "01" THEN 0 ELSE 1]

\* the 2x2 activity matrices given to new (column-major data)
ActivityVecs ==
    { <<1, 1, 1, 0>>, <<1, 0, 0, 1>>, <<1, 2, 0, 0>> }

ToF(v) == [k \in DOMAIN v |-> Int2F(v[k])]

ActivityMatrices == { from_vec(2, 2, ToF(v)) : v \in ActivityVecs }

McpsInputs == UNION { [ys -> ActivityMatrices] : ys \in SUBSET YearSet }

Cutoffs == { Some(One), Some(Rat(3, 2)) }
CtorCutoffs == { None, Some(Rat(3, 2)) }
QueryCutoffs == {None} \cup Cutoffs

YearLists == UNION { [1..n -> YearSet] : n \in 0..MaxLen }

\* inputs of the transforms: non-negative integer activity matrices, the
\* matrices of the crate's tests, and real-valued matrices around the cutoffs
TestVec == <<1, 2, 3, 4, 5, 6>>
TestMatrix == from_vec(2, 3, ToF(TestVec))
RowMajorMatrix == FromRows(<<ToF(<<1, 2, 3>>), ToF(<<4, 5, 6>>)>>)
TestRcaVec ==
    <<Rat(7, 9), Rat(7, 6), One, One, Rat(35, 33), Rat(21, 22)>>

IntMatrices == { from_vec(2, 2, ToF(v)) : v \in [1..4 -> 0..MaxCell] }

RealCells ==
    { Int2F(-1), Zero, Rat(1, 2), One, Rat(3, 2), Int2F(2), NaN, PosInf }
RealMatrices == { from_vec(2, 1, v) : v \in [1..2 -> RealCells] }

FnInputs ==
    IntMatrices \cup RealMatrices
        \cup {TestMatrix, RowMajorMatrix, from_vec(2, 3, TestRcaVec)}

FnCutoffs ==
    { None, Some(Int2F(-1)), Some(Zero), Some(Rat(1, 2)), Some(One), Some(Int2F(2)) }

(***************************************************************************)
(* ProductSpace: construction and queries.  A behaviour constructs one     *)
(* ProductSpace and issues one query on it; every query borrows &self.     *)
(***************************************************************************)
FnIdle ==
    /\ fn_src = EmptyMatrix
    /\ fn_m = EmptyMatrix
    /\ fn_cutoff = None
    /\ fn_ret = None
    /\ fn_ret2 = None
    /\ fn_log = <<>>

PsIdle ==
    /\ constructed = FALSE
    /\ country_idx = EmptyMap
    /\ product_idx = EmptyMap
    /\ mcps = EmptyMap
    /\ rcas_by_year = EmptyMap
    /\ rcas_cutoff_by_year = EmptyMap
    /\ proximities_by_year = EmptyMap
    /\ ctor_cutoff = None
    /\ q_op = "none"
    /\ q_years = <<>>
    /\ q_cutoff = None
    /\ q_result = None
    /\ q_again = FALSE

Init == PsIdle /\ FnIdle

\* ProductSpace::new(country_idx, product_idx, mcps, rca_cutoff)
New(mcps_in, rca_cutoff) ==
    /\ ~constructed
    /\ LET ps == new(CountryIdxIn, ProductIdxIn, mcps_in, rca_cutoff)
       IN  /\ country_idx' = ps.country_idx
           /\ product_idx' = ps.product_idx
           /\ mcps' = ps.mcps
           /\ rcas_by_year' = ps.rcas_by_year
           /\ rcas_cutoff_by_year' = ps.rcas_cutoff_by_year
           /\ proximities_by_year' = ps.proximities_by_year
    /\ ctor_cutoff' = rca_cutoff
    /\ constructed' = TRUE
    /\ UNCHANGED <<q_vars, fn_vars>>

\* ProductSpace::rca(&self, years, cutoff)
QueryRca(years, cutoff) ==
    /\ constructed
    /\ q_op = "none"
    /\ q_op' = "rca"
    /\ q_years' = years
    /\ q_cutoff' = cutoff
    /\ q_result' = RcaView(Self, rca_matrix(Self, years, cutoff))
    /\ q_again' = FALSE
    /\ rcas_by_year' = rcas_by_year_after_rca_matrix(Self, years, cutoff)
    /\ UNCHANGED <<ps_rest, fn_vars>>

\* ProductSpace::rca_cutoff(&self, years)
QueryRcaCutoff(years) ==
    /\ constructed
    /\ q_op = "none"
    /\ q_op' = "rca_cutoff"
    /\ q_years' = years
    /\ q_cutoff' = None
    /\ q_result' = RcaView(Self, rca_cutoff_matrix(Self, years))
    /\ q_again' = FALSE
    /\ UNCHANGED <<ps_vars, fn_vars>>

\* ProductSpace::proximity(&self, years)
QueryProximity(years) ==
    /\ constructed
    /\ q_op = "none"
    /\ q_op' = "proximity"
    /\ q_years' = years
    /\ q_cutoff' = None
    /\ q_result' = ProximityView(Self, proximity_matrix(Self, years))
    /\ q_again' = FALSE
    /\ UNCHANGED <<ps_vars, fn_vars>>

\* ProductSpace::density(&self, years, rca_cutoff)
QueryDensity(years, cutoff) ==
    /\ constructed
    /\ q_op = "none"
    /\ q_op' = "density"
    /\ q_years' = years
    /\ q_cutoff' = cutoff
    /\ q_result' = RcaView(Self, density_matrix(Self, years, cutoff))
    /\ q_again' = FALSE
    /\ rcas_by_year' = rcas_by_year_after_rca_matrix(Self, years, cutoff)
    /\ UNCHANGED <<ps_rest, fn_vars>>

Next ==
    \/ \E mcps_in \in McpsInputs, c \in CtorCutoffs : New(mcps_in, c)
    \/ \E years \in YearLists, c \in QueryCutoffs : QueryRca(years, c)
    \/ \E years \in YearLists : QueryRcaCutoff(years)
    \/ \E years \in YearLists : QueryProximity(years)
    \/ \E years \in YearLists, c \in QueryCutoffs : QueryDensity(years, c)

Spec == Init /\ [][Next]_vars

\* the caller issues the last query once more, with the same arguments
Requery ==
    /\ constructed
    /\ q_op # "none"
    /\ ~q_again
    /\ q_again' = TRUE
    /\ q_result' =
          IF q_op = "rca" THEN RcaView(Self, rca_matrix(Self, q_years, q_cutoff))
          ELSE IF q_op = "rca_cutoff" THEN RcaView(Self, rca_cutoff_matrix(Self, q_years))
          ELSE IF q_op = "proximity"
               THEN ProximityView(Self, proximity_matrix(Self, q_years))
          ELSE RcaView(Self, density_matrix(Self, q_years, q_cutoff))
    /\ rcas_by_year' =
          IF q_op \in {"rca", "density"}
          THEN rcas_by_year_after_rca_matrix(Self, q_years, q_cutoff)
          ELSE rcas_by_year
    /\ UNCHANGED <<ps_rest, q_op, q_years, q_cutoff, fn_vars>>

NextRepeat ==
    \/ Next
    \/ Requery

\* construction, one query, and the same query again
SpecRepeat == Init /\ [][NextRepeat]_vars

(***************************************************************************)
(* The transforms of rca.rs called directly                                *)
(***************************************************************************)
InitFn ==
    /\ PsIdle
    /\ fn_src \in FnInputs
    /\ fn_m = fn_src
    /\ fn_cutoff = None
    /\ fn_ret = None
    /\ fn_ret2 = None
    /\ fn_log = <<>>

\* let res = rca(&m)
CallRca ==
    /\ fn_log = <<>>
    /\ fn_ret' = Some(rca(fn_m))
    /\ fn_log' = Append(fn_log, "rca")
    /\ UNCHANGED <<fn_src, fn_m, fn_cutoff, fn_ret2, ps_vars, q_vars>>

\* apply_rca(&mut m)
CallApplyRca ==
    /\ fn_log \in {<<>>, <<"rca">>}
    /\ fn_m' = apply_rca(fn_m)
    /\ fn_log' = Append(fn_log, "apply_rca")
    /\ UNCHANGED <<fn_src, fn_cutoff, fn_ret, fn_ret2, ps_vars, q_vars>>

\* let res = fair_share(&m, cutoff)
CallFairShare(cutoff) ==
    /\ fn_log = <<>>
    /\ fn_cutoff' = cutoff
    /\ fn_ret' = Some(fair_share(fn_m, cutoff))
    /\ fn_log' = Append(fn_log, "fair_share")
    /\ UNCHANGED <<fn_src, fn_m, fn_ret2, ps_vars, q_vars>>

\* let res2 = fair_share(&res, cutoff), with the cutoff of the first call
CallFairShareAgain ==
    /\ fn_log = <<"fair_share">>
    /\ fn_ret2' = Some(fair_share(unwrap(fn_ret), fn_cutoff))
    /\ fn_log' = Append(fn_log, "fair_share_again")
    /\ UNCHANGED <<fn_src, fn_m, fn_cutoff, fn_ret, ps_vars, q_vars>>

\* apply_fair_share(&mut m, cutoff)
CallApplyFairShare(cutoff) ==
    /\ \/ fn_log = <<>>
       \/ fn_log = <<"fair_share">> /\ cutoff = fn_cutoff
    /\ fn_cutoff' = cutoff
    /\ fn_m' = apply_fair_share(fn_m, cutoff)
    /\ fn_log' = Append(fn_log, "apply_fair_share")
    /\ UNCHANGED <<fn_src, fn_ret, fn_ret2, ps_vars, q_vars>>

NextFn ==
    \/ CallRca
    \/ CallApplyRca
    \/ \E c \in FnCutoffs : CallFairShare(c)
    \/ CallFairShareAgain
    \/ \E c \in FnCutoffs : CallApplyFairShare(c)

SpecFn == InitFn /\ [][NextFn]_vars

(***************************************************************************)
(* Properties of the transforms (specification SpecFn)                     *)
(***************************************************************************)
\* the totals of an activity matrix, summed cell by cell
RowTotal(A, i) == SumSeq([jj \in 1..A.ncols |-> A.data[(jj - 1) * A.nrows + i + 1]])
ColTotal(A, j) == SumSeq([ii \in 1..A.nrows |-> A.data[j * A.nrows + ii]])
GrandTotal(A) == SumSeq([kk \in 1..Len(A.data) |-> A.data[kk]])

SameShape(A, B) ==
    /\ A.nrows = B.nrows
    /\ A.ncols = B.ncols
    /\ Len(A.data) = Len(B.data)

\* A is non-negative and finite, and no row or column total is zero
ActivityWithTotals(A) ==
    /\ A.nrows > 0 /\ A.ncols > 0
    /\ \A k \in DOMAIN A.data : IsFinite(A.data[k]) /\ Ge(A.data[k], Zero)
    /\ \A i \in Rows(A) : RowTotal(A, i) # Zero
    /\ \A j \in Cols(A) : ColTotal(A, j) # Zero

\* R[i,j] * b[i] * c[j] = A[i,j] * d in every cell
RcaIdentity(A, R) ==
    /\ SameShape(A, R)
    /\ \A i \in Rows(A), j \in Cols(A) :
          Mul(Mul(Cell(R, i, j), RowTotal(A, i)), ColTotal(A, j))
              = Mul(Cell(A, i, j), GrandTotal(A))

\* out[i,j] is 1.0 when M[i,j] >= c and 0.0 otherwise, c defaulting to 1.0
FairShareRule(M, cutoff, out) ==
    LET c == IF cutoff = None THEN One ELSE cutoff[1]
    IN  /\ SameShape(M, out)
        /\ \A i \in Rows(M), j \in Cols(M) :
              /\ Cell(out, i, j) \in {Zero, One}
              /\ Cell(out, i, j) = One <=> Ge(Cell(M, i, j), c)

FirstCall(op) == Len(fn_log) >= 1 /\ fn_log[1] = op

\* C6 as stated: fair_share(fair_share(M, c), c) = fair_share(M, c) for every
\* matrix M and every cutoff c.
C6_Original ==
    fn_log = <<"fair_share", "fair_share_again">> => unwrap(fn_ret2) = unwrap(fn_ret)

\* C6 amended: fair_share(fair_share(M, c), c) = fair_share(M, c) for every
\* matrix M and every cutoff c with 0 < c <= 1, the default 1.0 included.
C6_IdempotentInUnitRange ==
    LET c == unwrap_or(fn_cutoff, One)
    IN  (fn_log = <<"fair_share", "fair_share_again">> /\ Gt(c, Zero) /\ Ge(One, c))
            => unwrap(fn_ret2) = unwrap(fn_ret)

C6_Witness ==
    /\ fn_log = <<"fair_share", "fair_share_again">>
    /\ fn_cutoff = Some(Rat(1, 2))
    /\ \E k \in DOMAIN fn_src.data : fn_src.data[k] = Rat(1, 2)
    /\ \E k \in DOMAIN unwrap(fn_ret2).data : unwrap(fn_ret2).data[k] = Zero

\* C8 as stated: for the activity matrix with rows (1,2,3) and (4,5,6), rca
\* has rows (7/9, 7/6, 1) and (1, 35/33, 21/22).
C8_Original ==
    (fn_src = RowMajorMatrix /\ FirstCall("rca"))
        => unwrap(fn_ret) = FromRows(<< <<Rat(7, 9), Rat(7, 6), One>>,
                                        <<One, Rat(35, 33), Rat(21, 22)>> >>)

\* C8 amended: the matrix of the tests, DMatrix::from_vec(2, 3, [1,...,6]), is
\* filled column by column, so its rows are (1,3,5) and (2,4,6); rca of it has
\* rows (7/9, 1, 35/33) and (7/6, 1, 21/22), which is the column-major vector
\* (7/9, 7/6, 1, 1, 35/33, 21/22).
C8_ColumnMajorExample ==
    /\ TestMatrix = FromRows(<< ToF(<<1, 3, 5>>), ToF(<<2, 4, 6>>) >>)
    /\ (fn_src = TestMatrix /\ FirstCall("rca"))
          => /\ unwrap(fn_ret) = from_vec(2, 3, TestRcaVec)
             /\ unwrap(fn_ret) = FromRows(<< <<Rat(7, 9), One, Rat(35, 33)>>,
                                             <<Rat(7, 6), One, Rat(21, 22)>> >>)

C8_Witness ==
    /\ fn_src = TestMatrix
    /\ fn_log = <<"rca">>
    /\ Cell(unwrap(fn_ret), 0, 0) = Rat(7, 9)

\* C9: for a non-negative activity matrix A with non-zero totals, rca(A) and
\* the matrix apply_rca leaves in place are the same matrix R, with
\* R[i,j] * b[i] * c[j] = A[i,j] * d in every cell, and rca leaves A unchanged.
C9_RcaFormula ==
    ActivityWithTotals(fn_src) =>
        /\ FirstCall("rca") => RcaIdentity(fn_src, unwrap(fn_ret))
        /\ fn_log = <<"rca">> => fn_m = fn_src
        /\ fn_log = <<"apply_rca">> => RcaIdentity(fn_src, fn_m)
        /\ fn_log = <<"rca", "apply_rca">> => fn_m = unwrap(fn_ret)

C9_Witness ==
    /\ fn_log = <<"rca", "apply_rca">>
    /\ ActivityWithTotals(fn_src)
    /\ fn_m # fn_src
    /\ \E k \in DOMAIN fn_m.data : Gt(fn_m.data[k], One)
    /\ \E k \in DOMAIN fn_m.data : Gt(One, fn_m.data[k])

\* C10: fair_share(M, cutoff) and apply_fair_share(M, cutoff) give the same
\* matrix of the shape of M, whose cell is 1.0 if M[i,j] >= c and 0.0
\* otherwise (c = cutoff, or 1.0 for None); fair_share leaves M unchanged.
C10_FairShareRule ==
    /\ FirstCall("fair_share") => FairShareRule(fn_src, fn_cutoff, unwrap(fn_ret))
    /\ fn_log = <<"fair_share">> => fn_m = fn_src
    /\ fn_log = <<"apply_fair_share">> => FairShareRule(fn_src, fn_cutoff, fn_m)
    /\ fn_log = <<"fair_share", "apply_fair_share">> => fn_m = unwrap(fn_ret)

C10_Witness ==
    /\ fn_log = <<"fair_share", "apply_fair_share">>
    /\ fn_cutoff = None
    /\ \E k \in DOMAIN fn_src.data : fn_src.data[k] = One /\ fn_m.data[k] = One
    /\ \E k \in DOMAIN fn_src.data : fn_src.data[k] = Rat(1, 2) /\ fn_m.data[k] = Zero

(***************************************************************************)
(* Properties of the ProductSpace queries (specification Spec)             *)
(***************************************************************************)
\* the k-th requested year is a key of the per-year RCA map
Present(k) == q_years[k] \in DOMAIN rcas_by_year

AllMissing == \A k \in 1..Len(q_years) : ~Present(k)

\* the number of requested entries found in the per-year RCA map
NumFound == Cardinality({k \in 1..Len(q_years) : Present(k)})

\* the matrix of the view a query returned
ResultMatrix == unwrap(q_result).m

MultiYear(op) == q_op = op /\ Len(q_years) >= 2

\* the result has the shape country x product of the index maps
ResultShaped ==
    /\ is_some(q_result)
    /\ ResultMatrix.nrows = Cardinality(DOMAIN country_idx)
    /\ ResultMatrix.ncols = Cardinality(DOMAIN product_idx)
    /\ Len(ResultMatrix.data) = ResultMatrix.nrows * ResultMatrix.ncols

\* the sum of RCA_y[i,j] over the requested entries y that are present
PresentSum(i, j) ==
    SumSeq([k \in 1..Len(q_years) |->
               IF Present(k) THEN Cell(rcas_by_year[q_years[k]], i, j) ELSE Zero])

\* C1 as stated: in average mode the accumulator starts at 0.0, so every cell
\* of rca(years, None) is the sum of the present years' RCA cells divided by
\* years.len(), and all 0.0 when no requested year is present.
C1_AverageFromZero ==
    (MultiYear("rca") /\ q_cutoff = None) =>
        /\ ResultShaped
        /\ \A i \in Rows(ResultMatrix), j \in Cols(ResultMatrix) :
              Cell(ResultMatrix, i, j) = Div(PresentSum(i, j), Int2F(Len(q_years)))
        /\ AllMissing => \A k \in DOMAIN ResultMatrix.data : ResultMatrix.data[k] = Zero

\* C2 as stated: rca_cutoff over two or more years is the element-wise AND of
\* the construction-time binarized matrices of the present years: every cell
\* is 0.0 or 1.0, and is 1.0 iff it is 1.0 in each of those matrices.
C2_CutoffAnd ==
    MultiYear("rca_cutoff") =>
        /\ ResultShaped
        /\ \A i \in Rows(ResultMatrix), j \in Cols(ResultMatrix) :
              /\ Cell(ResultMatrix, i, j) \in {Zero, One}
              /\ Cell(ResultMatrix, i, j) = One <=>
                    \A k \in 1..Len(q_years) :
                        q_years[k] \in DOMAIN rcas_cutoff_by_year =>
                            Cell(rcas_cutoff_by_year[q_years[k]], i, j) = One

KeysOf(op) ==
    IF op = "rca" THEN DOMAIN rcas_by_year
    ELSE IF op = "rca_cutoff" THEN DOMAIN rcas_cutoff_by_year
    ELSE DOMAIN proximities_by_year

C5_DivisorIsRequested ==
    (MultiYear("rca") /\ q_cutoff = None) =>
        LET acc == rca_fold(Self, q_years, None)
        IN  /\ ResultShaped
            /\ \A k \in DOMAIN ResultMatrix.data :
                  /\ Mul(ResultMatrix.data[k], Int2F(Len(q_years))) = acc.data[k]
                  /\ (NumFound # Len(q_years) /\ IsFinite(acc.data[k])
                          /\ acc.data[k] # Zero)
                        => Mul(ResultMatrix.data[k], Int2F(NumFound)) # acc.data[k]

C5_Witness ==
    /\ MultiYear("rca") /\ q_cutoff = None /\ is_some(q_result)
    /\ Len(q_years) = 3
    /\ NumFound = 2
    /\ \A k \in DOMAIN ResultMatrix.data :
          IsFinite(ResultMatrix.data[k]) /\ ResultMatrix.data[k] # Zero

\* C7: density(years, cutoff) is None exactly when the RCA selection or the
\* proximity selection is None, and otherwise the density of the two selected
\* matrices; new gives the RCA, cutoff-RCA and proximity maps the year keys
\* of its input, so the two selections are Some or None together.
C7_DensityAbsent ==
    /\ constructed =>
          /\ DOMAIN rcas_by_year = DOMAIN mcps
          /\ DOMAIN rcas_cutoff_by_year = DOMAIN mcps
          /\ DOMAIN proximities_by_year = DOMAIN mcps
    /\ q_op = "density" =>
          LET r == rca_matrix(Self, q_years, q_cutoff)
              p == proximity_matrix(Self, q_years)
          IN  /\ is_some(r) <=> is_some(p)
              /\ is_none(q_result) <=> (is_none(r) \/ is_none(p))
              /\ is_some(q_result) => ResultMatrix = density(unwrap(r), unwrap(p))

C7_Witness ==
    /\ q_op = "density"
    /\ Len(q_years) = 1
    /\ is_some(q_result)
    /\ DOMAIN mcps # YearSet

\* C11: queries are pure reads: once new has returned, no rca, rca_cutoff,
\* proximity or density call (cutoff-mode folds included) changes the index
\* maps or a stored per-year activity, RCA, cutoff-RCA or proximity matrix,
\* and the same query issued again returns the same result.
C11_PureReads ==
    [][constructed =>
          /\ ps_vars' = ps_vars
          /\ q_again' => q_result' = q_result]_vars

C11_Witness ==
    /\ q_again
    /\ MultiYear("rca") /\ is_some(q_cutoff) /\ is_some(q_result)
    /\ NumFound >= 1
    /\ \E k \in 1..Len(q_years) :
          /\ Present(k)
          /\ \E n \in DOMAIN rcas_by_year[q_years[k]].data :
                rcas_by_year[q_years[k]].data[n] \notin {Zero, One}
    /\ \E n \in DOMAIN ResultMatrix.data : ResultMatrix.data[n] = One

\* the cutoff the construction-time matrices were binarized with
ConstructionCutoff == IF ctor_cutoff = None THEN One ELSE ctor_cutoff[1]

\* C12: for one present year y, rca([y], None) is the stored raw RCA matrix
\* of y and rca([y], Some(c)) is fair_share of it at the per-query cutoff c,
\* whatever cutoff new was given; rca_cutoff([y]) is fair_share of it at the
\* construction cutoff, so the two agree when c is the construction cutoff.
C12_SingleYear ==
    /\ (q_op = "rca" /\ Len(q_years) = 1 /\ q_years[1] \in DOMAIN rcas_by_year) =>
          /\ is_some(q_result)
          /\ q_cutoff = None => ResultMatrix = rcas_by_year[q_years[1]]
          /\ is_some(q_cutoff) =>
                FairShareRule(rcas_by_year[q_years[1]], q_cutoff, ResultMatrix)
          /\ (is_some(q_cutoff) /\ q_cutoff[1] = ConstructionCutoff) =>
                q_result = RcaView(Self, rca_cutoff_matrix(Self, q_years))
    /\ (q_op = "rca_cutoff" /\ Len(q_years) = 1
            /\ q_years[1] \in DOMAIN rcas_cutoff_by_year) =>
          /\ is_some(q_result)
          /\ FairShareRule(rcas_by_year[q_years[1]], Some(ConstructionCutoff),
                           ResultMatrix)

C12_Witness ==
    /\ q_op = "rca" /\ Len(q_years) = 1 /\ is_some(q_result)
    /\ q_cutoff = Some(One)
    /\ ctor_cutoff = Some(Rat(3, 2))
    /\ ResultMatrix # rcas_cutoff_by_year[q_years[1]]
    /\ ResultMatrix # rcas_by_year[q_years[1]]
    /\ \E n \in DOMAIN ResultMatrix.data :
          rcas_by_year[q_years[1]].data[n] = One /\ ResultMatrix.data[n] = One

====
